---- MODULE Spec2Model ----
(***************************************************************************)
(* AION-R2 MCP server: the stdio JSON-RPC loop of McpServer::run, the      *)
(* serde decoding of the envelopes and parameters, the method dispatch     *)
(* with its error-code mapping, the two tools and the backend gateway      *)
(* (ApiClient).                                                            *)
(*                                                                         *)
(* JSON values are records tagged by t: null, str, num, arr, obj.  An      *)
(* object's members are a function from member names to JSON values, so a  *)
(* member that is absent is simply not in the DOMAIN.  Rust Option<T> is   *)
(* None / Some(v), Result<T,E> is Ok(v) / Err(e).  Message texts are       *)
(* sequences of string pieces in the order format!() writes them.          *)
(***************************************************************************)
EXTENDS Integers, Sequences, FiniteSets, TLC

(* ------------------------------ bounds --------------------------------- *)
\* number of frames the client sends before it closes the stream
MaxFrames == 3

\* longest message, in chars, of the short messages put through the framing
MaxLen == 2

\* number of frames written to one stream when the framing is exercised
MaxPipe == 2

(* --------------------------- JSON values -------------------------------- *)
JNull == [t |-> "null"]
JStr(s) == [t |-> "str", v |-> s]
JNum(n) == [t |-> "num", v |-> n]
JArr(s) == [t |-> "arr", v |-> s]
JObj(f) == [t |-> "obj", v |-> f]
\* a JSON string that format!() or Display produced, kept as its pieces
JText(pieces) == [t |-> "text", v |-> pieces]

\* marks a member left out while an object is put together (not a JSON value)
Absent == [t |-> "absent"]

\* the object with the members of the pairs <<name, value>> whose value is
\* not Absent
MkObj(pairs) ==
  LET present == {p \in pairs : p[2] # Absent}
  IN  JObj([k \in {p[1] : p \in present} |->
              (CHOOSE p \in present : p[1] = k)[2]])

HasMember(j, k) == j.t = "obj" /\ k \in DOMAIN j.v

\* the member as the input text carries it: Absent when the body is not an
\* object or has no such member
Member(j, k) == IF HasMember(j, k) THEN j.v[k] ELSE Absent

(* ------------------------- Option and Result ---------------------------- *)
None == [t |-> "none"]
Some(v) == [t |-> "some", v |-> v]
Ok(v) == [t |-> "ok", v |-> v]
Err(e) == [t |-> "err", e |-> e]

\* Option::unwrap_or(Value::Null)
UnwrapOrNull(o) == IF o.t = "some" THEN o.v ELSE JNull

Range(s) == {s[i] : i \in 1..Len(s)}

(* ------------------------------ errors ---------------------------------- *)
\* an anyhow::Error holding a ServerError
MethodNotFound(s) == [ty |-> "ServerError", variant |-> "MethodNotFound", s |-> s]
InvalidParameters(method, details) ==
  [ty |-> "ServerError", variant |-> "InvalidParameters",
   s |-> <<method>> \o details]
ToolError(s) == [ty |-> "ServerError", variant |-> "ToolError", s |-> s]
\* an anyhow::Error holding a serde_json::Error or a reqwest::Error: the ?
\* operator wraps them as they are, not in a ServerError
SerdeError(s) == [ty |-> "serde_json", variant |-> "Error", s |-> s]
ReqwestError(s) == [ty |-> "reqwest", variant |-> "Error", s |-> s]

\* Display of the error (thiserror's #[error] strings)
ErrToString(e) ==
  IF e.ty = "ServerError" /\ e.variant = "MethodNotFound"
    THEN <<"Method not found: ">> \o e.s
  ELSE IF e.ty = "ServerError" /\ e.variant = "InvalidParameters"
    THEN <<"Invalid parameters for method '", Head(e.s), "': ">> \o Tail(e.s)
  ELSE IF e.ty = "ServerError" /\ e.variant = "ToolError"
    THEN <<"Internal tool error: ">> \o e.s
  ELSE e.s

(* ------------------- serde: decoding of the structures ------------------ *)
\* a body that is no JSON text at all
Garbage == [t |-> "garbage"]

\* a String field: a JSON string gives the string; anything else is an error
IsStr(j) == j.t = "str"

\* an Option<Value> field: a missing member and a member holding null both
\* give None (serde's Option visitor maps null to None)
OptionField(j, k) ==
  IF HasMember(j, k) /\ j.v[k] # JNull THEN Some(j.v[k]) ELSE None

\* serde_json::from_str::<JsonRpcRequest>: an object needs string members
\* jsonrpc and method; params and id are Options; members it does not know
\* are ignored.  A derived struct also decodes from an array that lists its
\* fields in order.
DecodeRequest(text) ==
  IF text = Garbage THEN Err(SerdeError(<<"expected value">>))
  ELSE IF text.t = "obj" THEN
    IF HasMember(text, "jsonrpc") /\ ~IsStr(text.v["jsonrpc"])
      THEN Err(SerdeError(<<"invalid type, expected a string">>))
    ELSE IF HasMember(text, "method") /\ ~IsStr(text.v["method"])
      THEN Err(SerdeError(<<"invalid type, expected a string">>))
    ELSE IF ~HasMember(text, "jsonrpc")
      THEN Err(SerdeError(<<"missing field ", "jsonrpc">>))
    ELSE IF ~HasMember(text, "method")
      THEN Err(SerdeError(<<"missing field ", "method">>))
    ELSE Ok([jsonrpc |-> text.v["jsonrpc"].v,
             method  |-> text.v["method"].v,
             params  |-> OptionField(text, "params"),
             id      |-> OptionField(text, "id")])
  ELSE IF text.t = "arr" THEN
    IF Len(text.v) # 4
      THEN Err(SerdeError(<<"invalid length">>))
    ELSE IF ~IsStr(text.v[1]) \/ ~IsStr(text.v[2])
      THEN Err(SerdeError(<<"invalid type, expected a string">>))
    ELSE Ok([jsonrpc |-> text.v[1].v,
             method  |-> text.v[2].v,
             params  |-> IF text.v[3] = JNull THEN None ELSE Some(text.v[3]),
             id      |-> IF text.v[4] = JNull THEN None ELSE Some(text.v[4])])
  ELSE Err(SerdeError(<<"invalid type, expected struct JsonRpcRequest">>))

\* serde_json::from_value::<ToolsCallParams>: name is a String, inputs a
\* Value, which has to be there but may hold anything, null included
DecodeToolsCallParams(j) ==
  IF j.t = "obj" THEN
    IF HasMember(j, "name") /\ ~IsStr(j.v["name"])
      THEN Err(SerdeError(<<"invalid type, expected a string">>))
    ELSE IF ~HasMember(j, "name")
      THEN Err(SerdeError(<<"missing field ", "name">>))
    ELSE IF ~HasMember(j, "inputs")
      THEN Err(SerdeError(<<"missing field ", "inputs">>))
    ELSE Ok([name |-> j.v["name"].v, inputs |-> j.v["inputs"]])
  ELSE IF j.t = "arr" THEN
    IF Len(j.v) # 2
      THEN Err(SerdeError(<<"invalid length">>))
    ELSE IF ~IsStr(j.v[1])
      THEN Err(SerdeError(<<"invalid type, expected a string">>))
    ELSE Ok([name |-> j.v[1].v, inputs |-> j.v[2]])
  ELSE Err(SerdeError(<<"invalid type, expected struct ToolsCallParams">>))

\* serde_json::from_value::<ResourcesListParams>
DecodeResourcesListParams(j) ==
  IF j.t = "obj" THEN
    IF HasMember(j, "uri") /\ ~IsStr(j.v["uri"])
      THEN Err(SerdeError(<<"invalid type, expected a string">>))
    ELSE IF ~HasMember(j, "uri")
      THEN Err(SerdeError(<<"missing field ", "uri">>))
    ELSE Ok([uri |-> j.v["uri"].v])
  ELSE IF j.t = "arr" THEN
    IF Len(j.v) # 1
      THEN Err(SerdeError(<<"invalid length">>))
    ELSE IF ~IsStr(j.v[1])
      THEN Err(SerdeError(<<"invalid type, expected a string">>))
    ELSE Ok([uri |-> j.v[1].v])
  ELSE Err(SerdeError(<<"invalid type, expected struct ResourcesListParams">>))

\* serde_json::to_string of a JsonRpcError: data is skipped when None
SerializeError(e) ==
  MkObj({<<"code", JNum(e.code)>>,
         <<"message", JText(e.message)>>,
         <<"data", IF e.data.t = "some" THEN e.data.v ELSE Absent>>})

\* variant: result and error written without skip_serializing_if, so that
\* None comes out as a member holding null
SerializeResponse_noskip(r) ==
  MkObj({<<"jsonrpc", JStr(r.jsonrpc)>>,
         <<"result", IF r.result.t = "some" THEN r.result.v ELSE JNull>>,
         <<"error", IF r.error.t = "some" THEN SerializeError(r.error.v)
                    ELSE JNull>>,
         <<"id", r.id>>})

\* serde_json::to_string of a JsonRpcResponse: result and error are skipped
\* when None (skip_serializing_if); Some(Value::Null) is written as null
SerializeResponse(r) ==
  MkObj({<<"jsonrpc", JStr(r.jsonrpc)>>,
         <<"result", IF r.result.t = "some" THEN r.result.v ELSE Absent>>,
         <<"error", IF r.error.t = "some" THEN SerializeError(r.error.v)
                    ELSE Absent>>,
         <<"id", r.id>>})

\* serde_json::from_str::<JsonRpcError>: code is a number, message a
\* string, data an Option
DecodeError(j) ==
  IF j.t = "obj" THEN
    IF HasMember(j, "code") /\ j.v["code"].t # "num"
      THEN Err(SerdeError(<<"invalid type, expected i32">>))
    ELSE IF HasMember(j, "message") /\ j.v["message"].t \notin {"str", "text"}
      THEN Err(SerdeError(<<"invalid type, expected a string">>))
    ELSE IF ~HasMember(j, "code")
      THEN Err(SerdeError(<<"missing field ", "code">>))
    ELSE IF ~HasMember(j, "message")
      THEN Err(SerdeError(<<"missing field ", "message">>))
    ELSE Ok([code    |-> j.v["code"].v,
             message |-> IF j.v["message"].t = "text" THEN j.v["message"].v
                         ELSE <<j.v["message"].v>>,
             data    |-> OptionField(j, "data")])
  ELSE Err(SerdeError(<<"invalid type, expected struct JsonRpcError">>))

\* serde_json::from_str::<JsonRpcResponse>: jsonrpc is a String, id a Value
\* that has to be there; result is an Option<Value>, so a result member
\* holding null decodes to None as an absent one does; error is an
\* Option<JsonRpcError>
DecodeResponse(text) ==
  IF text = Garbage THEN Err(SerdeError(<<"expected value">>))
  ELSE IF text.t = "obj" THEN
    IF HasMember(text, "jsonrpc") /\ ~IsStr(text.v["jsonrpc"])
      THEN Err(SerdeError(<<"invalid type, expected a string">>))
    ELSE IF OptionField(text, "error") # None
              /\ DecodeError(text.v["error"]).t = "err"
      THEN DecodeError(text.v["error"])
    ELSE IF ~HasMember(text, "jsonrpc")
      THEN Err(SerdeError(<<"missing field ", "jsonrpc">>))
    ELSE IF ~HasMember(text, "id")
      THEN Err(SerdeError(<<"missing field ", "id">>))
    ELSE Ok([jsonrpc |-> text.v["jsonrpc"].v,
             result  |-> OptionField(text, "result"),
             error   |-> IF OptionField(text, "error") = None THEN None
                         ELSE Some(DecodeError(text.v["error"]).v),
             id      |-> text.v["id"]])
  ELSE Err(SerdeError(<<"invalid type, expected struct JsonRpcResponse">>))

(* ------------------------- the backend gateway -------------------------- *)
\* what the backend does with one HTTP request: the request is not answered
\* at all, or it is answered with a status and a body
HttpOutcomes ==
  {[k |-> "send_error", status |-> 0, body |-> Garbage]}
  \cup {[k |-> "response", status |-> 200, body |-> b] :
          b \in {JNull, JObj([status |-> JStr("success")]),
                 JArr(<<JStr("model-1")>>), Garbage}}
  \cup {[k |-> "response", status |-> 500, body |-> b] :
          b \in {JStr("boom"), Garbage}}

\* StatusCode::is_success
IsSuccess(status) == status >= 200 /\ status <= 299

\* Display of a StatusCode
StatusText(status) ==
  IF status = 200 THEN "200 OK" ELSE "500 Internal Server Error"

\* variant: the payload is wrapped as the outputs of a ToolsCallResult
handle_response_wrapped(response) ==
  IF IsSuccess(response.status)
    THEN IF response.body = Garbage
           THEN Err(ReqwestError(<<"error decoding response body">>))
           ELSE Ok(JObj([outputs |-> response.body]))
    ELSE LET error_body == IF response.body = Garbage
                             THEN "<failed to read error body>"
                             ELSE response.body.v
         IN  Err(ToolError(<<"API request failed with status ",
                             StatusText(response.status), ": ", error_body>>))

\* ApiClient::handle_response: a success status gives the body parsed as
\* JSON; any other status gives a ToolError with the status and the body
\* (the body of a failure is text; Garbage there is a body that cannot be
\* read)
handle_response(response) ==
  IF IsSuccess(response.status)
    THEN IF response.body = Garbage
           THEN Err(ReqwestError(<<"error decoding response body">>))
           ELSE Ok(response.body)
    ELSE LET error_body == IF response.body = Garbage
                             THEN "<failed to read error body>"
                             ELSE response.body.v
         IN  Err(ToolError(<<"API request failed with status ",
                             StatusText(response.status), ": ", error_body>>))

\* ApiClient::run_inference, data_analysis and list_models, from the point
\* where send() returns: a failed send is a reqwest::Error passed on by ?
ApiResult(o) ==
  IF o.k = "send_error"
    THEN Err(ReqwestError(<<"error sending request">>))
    ELSE handle_response(o)

\* a handler that has reached the gateway: the capability and the JSON body
\* it sends
Call(cap, body) == [t |-> "call", cap |-> cap, body |-> body]

(* ------------------------------- tools ---------------------------------- *)
\* Value's Index<&str>: the member of an object, null for anything else
Index(j, k) == IF HasMember(j, k) THEN j.v[k] ELSE JNull

\* Value::get: the member of an object, None for anything else
Get(j, k) == IF HasMember(j, k) THEN Some(j.v[k]) ELSE None

\* Option<Value> serialized inside json!(): None is written as null
OptToJson(o) == IF o.t = "some" THEN o.v ELSE JNull

\* variant: prompt is looked at before model
run_inference_prompt_first(inputs) ==
  IF Index(inputs, "prompt").t # "str"
    THEN Err(InvalidParameters("run_inference",
                               <<"Missing or invalid '", "prompt", "' field">>))
  ELSE IF Index(inputs, "model").t # "str"
    THEN Err(InvalidParameters("run_inference",
                               <<"Missing or invalid '", "model", "' field">>))
  ELSE Call("runInference",
            JObj([model  |-> Index(inputs, "model"),
                  prompt |-> Index(inputs, "prompt"),
                  params |-> OptToJson(Get(inputs, "params"))]))

\* tools::inference::run_inference
run_inference(inputs) ==
  IF Index(inputs, "model").t # "str"
    THEN Err(InvalidParameters("run_inference",
                               <<"Missing or invalid '", "model", "' field">>))
  ELSE IF Index(inputs, "prompt").t # "str"
    THEN Err(InvalidParameters("run_inference",
                               <<"Missing or invalid '", "prompt", "' field">>))
  ELSE Call("runInference",
            JObj([model  |-> Index(inputs, "model"),
                  prompt |-> Index(inputs, "prompt"),
                  params |-> OptToJson(Get(inputs, "params"))]))

\* variant: a field holding null counts as missing
data_analysis_not_null(inputs) ==
  IF Index(inputs, "data") = JNull
    THEN Err(InvalidParameters("data_analysis",
                               <<"Missing '", "data", "' field">>))
  ELSE IF Index(inputs, "ops") = JNull
    THEN Err(InvalidParameters("data_analysis",
                               <<"Missing '", "ops", "' field">>))
  ELSE Call("dataAnalysis",
            JObj([data |-> Get(inputs, "data").v,
                  ops  |-> Get(inputs, "ops").v]))

\* tools::analytics::data_analysis
data_analysis(inputs) ==
  IF Get(inputs, "data").t = "none"
    THEN Err(InvalidParameters("data_analysis",
                               <<"Missing '", "data", "' field">>))
  ELSE IF Get(inputs, "ops").t = "none"
    THEN Err(InvalidParameters("data_analysis",
                               <<"Missing '", "ops", "' field">>))
  ELSE Call("dataAnalysis",
            JObj([data |-> Get(inputs, "data").v,
                  ops  |-> Get(inputs, "ops").v]))

(* ------------------------------ handlers -------------------------------- *)
MCP_VERSION == "2024-11-05"
CatalogUri == "aion-r://models/catalog"

\* variant: the params are decoded as InitializeParams
handle_initialize_strict(params) ==
  IF params.t = "some" /\ HasMember(params.v, "protocolVersion")
       /\ IsStr(params.v.v["protocolVersion"])
    THEN Ok(JObj([protocolVersion |-> params.v.v["protocolVersion"],
                  server |-> JObj([name |-> JStr("aionr2"),
                                   version |-> JStr("CARGO_PKG_VERSION")])]))
    ELSE Err(SerdeError(<<"missing field ", "protocolVersion">>))

\* McpServer::handle_initialize: the params are not looked at
handle_initialize(params) ==
  Ok(JObj([protocolVersion |-> JStr(MCP_VERSION),
           server |-> JObj([name |-> JStr("aionr2"),
                            version |-> JStr("CARGO_PKG_VERSION")])]))

ToolDefinition(name, description, inputs) ==
  JObj([name |-> JStr(name), description |-> JStr(description),
        inputs |-> inputs])

\* the two entries of the vec! in handle_tools_list
RunInferenceTool ==
  ToolDefinition("run_inference",
    "Runs AI inference by calling the backend AION-R API.",
    JObj([type |-> JStr("object"),
          properties |-> JObj([model  |-> JObj([type |-> JStr("string")]),
                               prompt |-> JObj([type |-> JStr("string")]),
                               params |-> JObj([type |-> JStr("object")])]),
          required |-> JArr(<<JStr("model"), JStr("prompt")>>)]))

DataAnalysisTool ==
  ToolDefinition("data_analysis",
    "Runs data analysis by calling the backend AION-R API.",
    JObj([type |-> JStr("object"),
          properties |-> JObj([data |-> MkObj({}),
                               ops  |-> JObj([type |-> JStr("array")])]),
          required |-> JArr(<<JStr("data"), JStr("ops")>>)]))

\* variant: the tools are listed in the other order
handle_tools_list_reversed ==
  Ok(JObj([tools |-> JArr(<<DataAnalysisTool, RunInferenceTool>>)]))

\* McpServer::handle_tools_list
handle_tools_list ==
  Ok(JObj([tools |-> JArr(<<RunInferenceTool, DataAnalysisTool>>)]))

\* variant: a name that is not data_analysis is served as run_inference
handle_tools_call_default(params) ==
  LET p == DecodeToolsCallParams(UnwrapOrNull(params))
  IN  IF p.t = "err" THEN p
      ELSE IF p.v.name = "data_analysis" THEN data_analysis(p.v.inputs)
      ELSE run_inference(p.v.inputs)

\* McpServer::handle_tools_call
handle_tools_call(params) ==
  LET p == DecodeToolsCallParams(UnwrapOrNull(params))
  IN  IF p.t = "err" THEN p
      ELSE IF p.v.name = "run_inference" THEN run_inference(p.v.inputs)
      ELSE IF p.v.name = "data_analysis" THEN data_analysis(p.v.inputs)
      ELSE Err(MethodNotFound(<<"Tool '", p.v.name, "' not found">>))

\* variant: a uri that is not the catalog is an error
handle_resources_list_strict(params) ==
  LET p == DecodeResourcesListParams(UnwrapOrNull(params))
  IN  IF p.t = "err" THEN p
      ELSE IF p.v.uri = CatalogUri THEN Call("listModels", JNull)
      ELSE Err(MethodNotFound(<<"Resource ", p.v.uri, " not found">>))

\* McpServer::handle_resources_list
handle_resources_list(params) ==
  LET p == DecodeResourcesListParams(UnwrapOrNull(params))
  IN  IF p.t = "err" THEN p
      ELSE IF p.v.uri = CatalogUri THEN Call("listModels", JNull)
      ELSE Ok(JArr(<<>>))

(* ------------------------------ dispatch -------------------------------- *)
\* McpServer::dispatch, the match on the method: the handler's result, or
\* the gateway call the handler is waiting for
Handle(request) ==
  IF request.method = "initialize" THEN handle_initialize(request.params)
  ELSE IF request.method = "tools/list" THEN handle_tools_list
  ELSE IF request.method = "tools/call" THEN handle_tools_call(request.params)
  ELSE IF request.method = "resources/list"
    THEN handle_resources_list(request.params)
  ELSE Err(MethodNotFound(<<request.method>>))

\* variant: the codes of MethodNotFound and InvalidParameters exchanged
ErrorCode_swapped(e) ==
  IF e.ty = "ServerError" /\ e.variant = "InvalidJsonRpcRequest" THEN -32600
  ELSE IF e.ty = "ServerError" /\ e.variant = "MethodNotFound" THEN -32602
  ELSE IF e.ty = "ServerError" /\ e.variant = "InvalidParameters" THEN -32601
  ELSE IF e.ty = "ServerError" /\ e.variant = "ToolError" THEN -32000
  ELSE -32603

\* McpServer::dispatch, the match on the downcast error
ErrorCode(e) ==
  IF e.ty = "ServerError" /\ e.variant = "InvalidJsonRpcRequest" THEN -32600
  ELSE IF e.ty = "ServerError" /\ e.variant = "MethodNotFound" THEN -32601
  ELSE IF e.ty = "ServerError" /\ e.variant = "InvalidParameters" THEN -32602
  ELSE IF e.ty = "ServerError" /\ e.variant = "ToolError" THEN -32000
  ELSE -32603

ErrorMessage(e) ==
  IF e.ty = "ServerError" /\ e.variant = "InvalidJsonRpcRequest" THEN e.s
  ELSE IF e.ty = "ServerError" /\ e.variant = "MethodNotFound"
    THEN <<"Method not found: ">> \o e.s
  ELSE IF e.ty = "ServerError" /\ e.variant = "ToolError" THEN e.s
  ELSE ErrToString(e)

JsonRpcError(code, message) ==
  [code |-> code, message |-> message, data |-> None]

\* McpServer::dispatch, the match on the result
JsonRpcResponse(result, request_id) ==
  IF result.t = "ok"
    THEN [jsonrpc |-> "2.0", result |-> Some(result.v), error |-> None,
          id |-> request_id]
    ELSE [jsonrpc |-> "2.0", result |-> None,
          error |-> Some(JsonRpcError(ErrorCode(result.e),
                                      ErrorMessage(result.e))),
          id |-> request_id]

\* McpServer::create_error_response
create_error_response(id, code, message) ==
  SerializeResponse([jsonrpc |-> "2.0", result |-> None,
                     error |-> Some(JsonRpcError(code, message)),
                     id |-> UnwrapOrNull(id)])

(* ----------------------- the frames a client sends ---------------------- *)
IdMembers == {Absent, JNull, JNum(1), JStr("a")}
Methods == {"initialize", "tools/list", "tools/call", "resources/list", "ping"}

InferenceInputs ==
  {MkObj({<<"model", m>>, <<"prompt", q>>}) :
     m \in {Absent, JStr("m"), JNum(3)},
     q \in {Absent, JStr("p"), JNum(3)}}
  \cup {JObj([model |-> JStr("m"), prompt |-> JStr("p"),
              params |-> JObj([temperature |-> JNum(1)])])}

AnalysisInputs ==
  {MkObj({<<"data", d>>, <<"ops", o>>}) :
     d \in {Absent, JNull, JArr(<<JNum(10)>>)},
     o \in {Absent, JNull, JArr(<<JStr("mean")>>)}}

ToolsCallShapes ==
  {MkObj({<<"name", n>>, <<"inputs", i>>}) :
     n \in {Absent, JNum(7), JStr("run_inference"), JStr("data_analysis"),
            JStr("nope")},
     i \in {Absent, JNull, JStr("x")} \cup InferenceInputs \cup AnalysisInputs}
  \cup {JArr(<<JStr("run_inference"),
               JObj([model |-> JStr("m"), prompt |-> JStr("p")])>>),
        JArr(<<JStr("nope")>>)}

ResourcesListShapes ==
  {MkObj({<<"uri", u>>}) :
     u \in {Absent, JNum(7), JStr(CatalogUri), JStr("aion-r://other")}}
  \cup {JArr(<<JStr(CatalogUri)>>)}

ParamsMembers(m) ==
  {Absent, JNull, JStr("x"), JObj([protocolVersion |-> JStr(MCP_VERSION)])}
  \cup (IF m = "tools/call" THEN ToolsCallShapes ELSE {})
  \cup (IF m = "resources/list" THEN ResourcesListShapes ELSE {})

\* one well-formed params value per method
SampleParams(m) ==
  IF m = "tools/call"
    THEN JObj([name |-> JStr("data_analysis"),
               inputs |-> JObj([data |-> JArr(<<JNum(10)>>),
                                ops |-> JArr(<<JStr("mean")>>)])])
  ELSE IF m = "resources/list" THEN JObj([uri |-> JStr(CatalogUri)])
  ELSE Absent

\* bodies that decode as a JsonRpcRequest: every method with every params
\* shape and id under version "2.0", every method with its sample params
\* under another version string, and a request written as an array
RequestBodies ==
  UNION {{MkObj({<<"jsonrpc", JStr("2.0")>>, <<"method", JStr(m)>>,
                 <<"params", x>>, <<"id", i>>}) :
            x \in ParamsMembers(m), i \in IdMembers} : m \in Methods}
  \cup {MkObj({<<"jsonrpc", JStr("1.0")>>, <<"method", JStr(m)>>,
               <<"params", SampleParams(m)>>, <<"id", i>>}) :
          m \in Methods, i \in IdMembers}
  \cup {JArr(<<JStr("2.0"), JStr("tools/list"), JNull, JNum(1)>>)}

\* bodies that do not: no JSON, JSON of another type, an object without
\* method or jsonrpc or with a method that is no string
MalformedBodies ==
  {Garbage, JNum(5), JArr(<<JStr("2.0")>>)}
  \cup {MkObj({<<"jsonrpc", j>>, <<"method", m>>, <<"id", i>>}) :
          j \in {Absent, JStr("2.0")}, m \in {Absent, JNum(7)},
          i \in IdMembers}
  \cup {MkObj({<<"method", JStr("tools/list")>>, <<"id", i>>}) :
          i \in IdMembers}

\* a frame as read_message meets it: hdr says what the header section holds
\* (a Content-Length above zero, a Content-Length of zero, or none), k what
\* follows it (the announced bytes as text, fewer bytes than announced, or
\* bytes that are not UTF-8)
Frames ==
  {[hdr |-> "ok", k |-> "text", text |-> b] :
     b \in RequestBodies \cup MalformedBodies}
  \cup {[hdr |-> h, k |-> "text", text |-> Garbage] : h \in {"none", "zero"}}
  \cup {[hdr |-> "ok", k |-> x, text |-> Garbage] : x \in {"short", "badutf8"}}

EndOfInput == [hdr |-> "eof", k |-> "text", text |-> Garbage]

\* util::read_message
read_message(f) ==
  IF f.hdr = "eof" THEN Ok(None)
  ELSE IF f.hdr # "ok" THEN Ok(None)
  ELSE IF f.k = "short" THEN Err("failed to fill whole buffer")
  ELSE IF f.k = "badutf8" THEN Err("invalid utf-8 sequence")
  ELSE Ok(Some(f.text))

(* ------------------------------- state ---------------------------------- *)
VARIABLES
  pc,           \* where run is: read, decode, dispatch, await, respond, stopped
  exit,         \* what run returned: "running", "ok", "err"
  nread,        \* frames taken from stdin so far
  frame,        \* the frame (or end of input) read_message met last
  message_str,  \* the body read_message returned in this iteration
  request,      \* the decoded JsonRpcRequest of this iteration
  call,         \* the gateway call dispatch is waiting for
  gwCalls,      \* the gateway calls made in this iteration
  reply,        \* what the backend did with the call of this iteration
  response,     \* the JsonRpcResponse dispatch returned in this iteration
  wire,         \* the text given to write_message in this iteration
  reads,        \* per request decoded: the number of its frame and its id
  stdout,       \* per frame written: the number of the frame it answers, its id
  sent,         \* the frames written so far, whole, when the run is traced
  served,       \* per request served, when the run is traced: its body, what
                \* the backend did with its call, the response built for it
  pipe          \* when the framing is exercised byte by byte: the messages
                \* written, the bytes not yet read, what read_message returned

vars == <<pc, exit, nread, frame, message_str, request, call, gwCalls, reply,
          response, wire, reads, stdout, sent, served, pipe>>

Init ==
  /\ pc = "read"
  /\ exit = "running"
  /\ nread = 0
  /\ frame = None
  /\ message_str = None
  /\ request = None
  /\ call = None
  /\ gwCalls = <<>>
  /\ reply = None
  /\ response = None
  /\ wire = None
  /\ reads = <<>>
  /\ stdout = <<>>
  /\ sent = None
  /\ served = None
  /\ pipe = None

\* variant: the frame is put in front of what was written before
write_message_prepend(text) ==
  /\ wire' = Some(text)
  /\ stdout' = <<[frame |-> nread, id |-> text.v["id"]]>> \o stdout
  /\ sent' = IF sent = None THEN None ELSE Some(<<text>> \o sent.v)

\* util::write_message: one frame whose body is the text, written and
\* flushed; the write to stdout itself is taken to succeed
write_message(text) ==
  /\ wire' = Some(text)
  /\ stdout' = Append(stdout, [frame |-> nread, id |-> text.v["id"]])
  /\ sent' = IF sent = None THEN None ELSE Some(Append(sent.v, text))

\* variant: the next frame is read while the response to this one is
\* still to be written
ReadMessage_early(f) ==
  /\ pc \in {"read", "respond"}
  /\ nread < MaxFrames
  /\ nread' = nread + 1
  /\ frame' = Some(f)
  /\ LET r == read_message(f)
     IN  IF r.t = "err"
           THEN pc' = "stopped" /\ exit' = "err" /\ message_str' = None
         ELSE IF r.v = None
           THEN pc' = "stopped" /\ exit' = "ok" /\ message_str' = None
         ELSE pc' = "decode" /\ exit' = exit /\ message_str' = r.v
  /\ request' = None
  /\ call' = None
  /\ gwCalls' = <<>>
  /\ reply' = None
  /\ response' = None
  /\ wire' = None
  /\ UNCHANGED <<reads, stdout, sent, served>>
  /\ UNCHANGED pipe

\* run, line 34: read_message returns for the next frame of the input
ReadMessage(f) ==
  /\ pc = "read"
  /\ nread < MaxFrames
  /\ nread' = nread + 1
  /\ frame' = Some(f)
  /\ LET r == read_message(f)
     IN  IF r.t = "err"
           THEN pc' = "stopped" /\ exit' = "err" /\ message_str' = None
         ELSE IF r.v = None
           THEN pc' = "stopped" /\ exit' = "ok" /\ message_str' = None
         ELSE pc' = "decode" /\ exit' = exit /\ message_str' = r.v
  /\ request' = None
  /\ call' = None
  /\ gwCalls' = <<>>
  /\ reply' = None
  /\ response' = None
  /\ wire' = None
  /\ UNCHANGED <<reads, stdout, sent, served>>
  /\ UNCHANGED pipe

\* run, line 34, when the input has ended
ReadEof ==
  /\ pc = "read"
  /\ read_message(EndOfInput) = Ok(None)
  /\ frame' = Some(EndOfInput)
  /\ pc' = "stopped"
  /\ exit' = "ok"
  /\ UNCHANGED <<nread, message_str, request, call, gwCalls, reply, response,
                 wire, reads, stdout, sent, served>>
  /\ UNCHANGED pipe

\* variant: the decoding error is passed on with ?, which ends run
Decode_stop ==
  /\ pc = "decode"
  /\ LET d == DecodeRequest(message_str.v)
     IN  IF d.t = "err"
           THEN /\ pc' = "stopped"
                /\ exit' = "err"
                /\ UNCHANGED <<request, reads, wire, stdout, sent>>
           ELSE /\ request' = Some(d.v)
                /\ reads' = Append(reads, [frame |-> nread, id |-> d.v.id])
                /\ pc' = "dispatch"
                /\ UNCHANGED <<exit, wire, stdout, sent>>
  /\ UNCHANGED <<nread, frame, message_str, call, gwCalls, reply, response,
                 served>>
  /\ UNCHANGED pipe

\* run, lines 36-49: decode the body; a body that does not decode is
\* answered with a parse error and the loop goes on
Decode ==
  /\ pc = "decode"
  /\ LET d == DecodeRequest(message_str.v)
     IN  IF d.t = "err"
           THEN /\ write_message(create_error_response(
                                   None, -32700, <<"Parse error: ">> \o d.e.s))
                /\ pc' = "read"
                /\ UNCHANGED <<request, reads>>
           ELSE /\ request' = Some(d.v)
                /\ reads' = Append(reads, [frame |-> nread, id |-> d.v.id])
                /\ pc' = "dispatch"
                /\ UNCHANGED <<wire, stdout, sent>>
  /\ UNCHANGED <<exit, nread, frame, message_str, call, gwCalls, reply,
                 response, served>>
  /\ UNCHANGED pipe

\* variant: a session that has not been initialized is refused, so that
\* what a request gets depends on the frames before it
Dispatch_initialized ==
  /\ pc = "dispatch"
  /\ LET initialized ==
           \/ served = None
           \/ \E i \in 1..Len(served.v) :
                Member(served.v[i].body, "method") = JStr("initialize")
         h == IF initialized \/ request.v.method = "initialize"
                THEN Handle(request.v)
                ELSE Err(MethodNotFound(<<"not initialized">>))
     IN  IF h.t = "call"
           THEN /\ call' = Some(h)
                /\ gwCalls' = Append(gwCalls, h)
                /\ pc' = "await"
                /\ UNCHANGED response
           ELSE /\ response' = Some(JsonRpcResponse(h, UnwrapOrNull(request.v.id)))
                /\ pc' = "respond"
                /\ UNCHANGED <<call, gwCalls>>
  /\ UNCHANGED <<exit, nread, frame, message_str, request, reply, wire, reads,
                 stdout, sent, served>>
  /\ UNCHANGED pipe

\* variant: a request whose jsonrpc is not "2.0" is refused
Dispatch_versioned ==
  /\ pc = "dispatch"
  /\ LET h == IF request.v.jsonrpc = "2.0"
                THEN Handle(request.v)
                ELSE Err([ty |-> "ServerError",
                          variant |-> "InvalidJsonRpcRequest",
                          s |-> <<"unsupported jsonrpc version">>])
     IN  IF h.t = "call"
           THEN /\ call' = Some(h)
                /\ gwCalls' = Append(gwCalls, h)
                /\ pc' = "await"
                /\ UNCHANGED response
           ELSE /\ response' = Some(JsonRpcResponse(h, UnwrapOrNull(request.v.id)))
                /\ pc' = "respond"
                /\ UNCHANGED <<call, gwCalls>>
  /\ UNCHANGED <<exit, nread, frame, message_str, request, reply, wire, reads,
                 stdout, sent, served>>
  /\ UNCHANGED pipe

\* dispatch, up to the handler's result or to its call of the gateway
Dispatch ==
  /\ pc = "dispatch"
  /\ LET h == Handle(request.v)
     IN  IF h.t = "call"
           THEN /\ call' = Some(h)
                /\ gwCalls' = Append(gwCalls, h)
                /\ pc' = "await"
                /\ UNCHANGED response
           ELSE /\ response' = Some(JsonRpcResponse(h, UnwrapOrNull(request.v.id)))
                /\ pc' = "respond"
                /\ UNCHANGED <<call, gwCalls>>
  /\ UNCHANGED <<exit, nread, frame, message_str, request, reply, wire, reads,
                 stdout, sent, served>>
  /\ UNCHANGED pipe

\* the gateway call returns and dispatch builds the response from it
GatewayReturn(o) ==
  /\ pc = "await"
  /\ response' = Some(JsonRpcResponse(ApiResult(o), UnwrapOrNull(request.v.id)))
  /\ call' = None
  /\ reply' = Some(o)
  /\ pc' = "respond"
  /\ UNCHANGED <<exit, nread, frame, message_str, request, gwCalls, wire,
                 reads, stdout, sent, served>>
  /\ UNCHANGED pipe

\* the request served in this iteration is added to the trace, when one is
\* kept
Trace ==
  served' = IF served = None THEN None
            ELSE Some(Append(served.v, [body     |-> message_str.v,
                                        reply    |-> reply,
                                        response |-> response.v]))

\* variant: only a success response is written
Respond_success_only ==
  /\ pc = "respond"
  /\ IF request.v.id.t = "some" /\ response.v.error = None
       THEN write_message(SerializeResponse(response.v))
       ELSE UNCHANGED <<wire, stdout, sent>>
  /\ Trace
  /\ pc' = "read"
  /\ UNCHANGED <<exit, nread, frame, message_str, request, call, gwCalls, reply,
                 response, reads>>
  /\ UNCHANGED pipe

\* variant: the response is written whether or not the request had an id
Respond_always ==
  /\ pc = "respond"
  /\ write_message(SerializeResponse(response.v))
  /\ Trace
  /\ pc' = "read"
  /\ UNCHANGED <<exit, nread, frame, message_str, request, call, gwCalls, reply,
                 response, reads>>
  /\ UNCHANGED pipe

\* run, lines 52-56: the response is written when the request had an id
Respond ==
  /\ pc = "respond"
  /\ IF request.v.id.t = "some"
       THEN write_message(SerializeResponse(response.v))
       ELSE UNCHANGED <<wire, stdout, sent>>
  /\ Trace
  /\ pc' = "read"
  /\ UNCHANGED <<exit, nread, frame, message_str, request, call, gwCalls, reply,
                 response, reads>>
  /\ UNCHANGED pipe

Next ==
  \/ \E f \in Frames : ReadMessage(f)
  \/ ReadEof
  \/ Decode
  \/ Dispatch
  \/ \E o \in HttpOutcomes : GatewayReturn(o)
  \/ Respond

Spec == Init /\ [][Next]_vars

(* ----------------- the traced run: whole frames are kept ---------------- *)
\* a few frames of each kind, for runs in which every frame written is kept
\* whole: two bodies that do not decode, requests and a notification that
\* need no gateway, two requests that call it, one of them a second time
\* with another jsonrpc, and frames read_message does not return a body for
SeqBodies ==
  {Garbage,
   JObj([jsonrpc |-> JStr("2.0"), id |-> JNum(1)]),
   JObj([jsonrpc |-> JStr("2.0"), method |-> JStr("tools/list"),
         id |-> JNum(1)]),
   JObj([jsonrpc |-> JStr("2.0"), method |-> JStr("tools/list"),
         id |-> JStr("a")]),
   JObj([jsonrpc |-> JStr("2.0"), method |-> JStr("tools/list")]),
   JObj([jsonrpc |-> JStr("2.0"), method |-> JStr("initialize"),
         id |-> JNum(1)]),
   JObj([jsonrpc |-> JStr("2.0"), method |-> JStr("ping"), id |-> JStr("a")]),
   JObj([jsonrpc |-> JStr("2.0"), method |-> JStr("tools/call"),
         params |-> SampleParams("tools/call"), id |-> JNum(1)]),
   JObj([jsonrpc |-> JStr("2.0"), method |-> JStr("resources/list"),
         params |-> SampleParams("resources/list"), id |-> JNum(1)]),
   JObj([jsonrpc |-> JStr("1.0"), method |-> JStr("tools/call"),
         params |-> SampleParams("tools/call"), id |-> JNum(1)])}

SeqFrames ==
  {f \in Frames : f.hdr = "ok" /\ f.k = "text" /\ f.text \in SeqBodies}
  \cup {f \in Frames : f.hdr = "none" \/ f.k = "badutf8"}

InitSeq ==
  /\ pc = "read"
  /\ exit = "running"
  /\ nread = 0
  /\ frame = None
  /\ message_str = None
  /\ request = None
  /\ call = None
  /\ gwCalls = <<>>
  /\ reply = None
  /\ response = None
  /\ wire = None
  /\ reads = <<>>
  /\ stdout = <<>>
  /\ sent = Some(<<>>)
  /\ served = Some(<<>>)
  /\ pipe = None

NextSeq ==
  \/ \E f \in SeqFrames : ReadMessage(f)
  \/ ReadEof
  \/ Decode
  \/ Dispatch
  \/ \E o \in HttpOutcomes : GatewayReturn(o)
  \/ Respond

SpecSeq == InitSeq /\ [][NextSeq]_vars

(* ------------------------ framing, byte by byte ------------------------- *)
\* A String is a sequence of chars and a stream a sequence of bytes.  A byte
\* is named by the ASCII char it stands for, by CR, LF or HT, or by its two
\* hex digits when it is above 0x7F.
Chars == {"a", "LF", "U+1F600"}

\* the UTF-8 encoding of a char
Utf8(c) ==
  IF c = "U+1F600" THEN <<"F0", "9F", "98", "80">>
  ELSE IF c = "U+00E9" THEN <<"C3", "A9">>
  ELSE <<c>>

\* str::as_bytes, and str::len is the length of it
RECURSIVE as_bytes(_)
as_bytes(s) == IF s = <<>> THEN <<>> ELSE Utf8(Head(s)) \o as_bytes(Tail(s))

\* bytes that continue a char, and the bytes that start one of 2 or 4 bytes
Continuation == {"80", "98", "9F", "A9"}
LeadTwo == {"C3"}
LeadFour == {"F0"}

\* String::from_utf8: the chars, or an error when the bytes are no UTF-8
RECURSIVE from_utf8(_)
from_utf8(b) ==
  IF b = <<>> THEN Ok(<<>>)
  ELSE
    LET n == IF Head(b) \in LeadTwo THEN 2
             ELSE IF Head(b) \in LeadFour THEN 4 ELSE 1
        valid == /\ Head(b) \notin Continuation
                 /\ Len(b) >= n
                 /\ \A i \in 2..n : b[i] \in Continuation
                 /\ (n = 4 => b[2] # "80")
        c == IF n = 1 THEN Head(b)
             ELSE IF SubSeq(b, 1, n) = Utf8("U+1F600") THEN "U+1F600"
             ELSE IF SubSeq(b, 1, n) = Utf8("U+00E9") THEN "U+00E9"
             ELSE "U+other"
    IN  IF ~valid THEN Err("invalid utf-8 sequence")
        ELSE LET r == from_utf8(SubSeq(b, n + 1, Len(b)))
             IN  IF r.t = "err" THEN r ELSE Ok(<<c>> \o r.v)

Digits == <<"0", "1", "2", "3", "4", "5", "6", "7", "8", "9">>

\* Display of a usize: its decimal digits
RECURSIVE to_string(_)
to_string(n) ==
  IF n < 10 THEN <<Digits[n + 1]>>
  ELSE to_string(n \div 10) \o <<Digits[(n % 10) + 1]>>

RECURSIVE ParseDigits(_, _)
ParseDigits(s, acc) ==
  IF s = <<>> THEN Ok(acc)
  ELSE IF Head(s) \notin Range(Digits) THEN Err("invalid digit found in string")
  ELSE ParseDigits(Tail(s),
         10 * acc + (CHOOSE d \in 0..9 : Digits[d + 1] = Head(s)))

\* str::parse::<usize>: decimal digits, after at most one plus sign
parse_usize(s) ==
  LET digits == IF s # <<>> /\ Head(s) = "+" THEN Tail(s) ELSE s
  IN  IF digits = <<>> THEN Err("cannot parse integer from empty string")
      ELSE ParseDigits(digits, 0)

Whitespace == {" ", "CR", "LF", "HT"}

RECURSIVE trim_start(_)
trim_start(s) ==
  IF s # <<>> /\ Head(s) \in Whitespace THEN trim_start(Tail(s)) ELSE s

RECURSIVE trim_end(_)
trim_end(s) ==
  IF s # <<>> /\ s[Len(s)] \in Whitespace
    THEN trim_end(SubSeq(s, 1, Len(s) - 1)) ELSE s

\* str::trim
trim(s) == trim_end(trim_start(s))

\* str::splitn(2, ':'): cut at the first colon, when there is one
splitn(s) ==
  IF ":" \in Range(s)
    THEN LET k == CHOOSE i \in 1..Len(s) :
                    s[i] = ":" /\ \A j \in 1..(i - 1) : s[j] # ":"
         IN  <<SubSeq(s, 1, k - 1), SubSeq(s, k + 1, Len(s))>>
    ELSE <<s>>

ToLower(c) == IF c = "C" THEN "c" ELSE IF c = "L" THEN "l" ELSE c

\* str::eq_ignore_ascii_case
eq_ignore_ascii_case(s, u) ==
  /\ Len(s) = Len(u)
  /\ \A i \in 1..Len(s) : ToLower(s[i]) = ToLower(u[i])

ContentLength ==
  <<"C", "o", "n", "t", "e", "n", "t", "-", "L", "e", "n", "g", "t", "h">>

\* AsyncBufReadExt::read_line: the bytes up to the first LF, that byte
\* included, or all there is; they have to be UTF-8
read_line(stdin) ==
  LET n == IF "LF" \in Range(stdin)
             THEN CHOOSE i \in 1..Len(stdin) :
                    stdin[i] = "LF" /\ \A j \in 1..(i - 1) : stdin[j] # "LF"
             ELSE Len(stdin)
  IN  [line |-> from_utf8(SubSeq(stdin, 1, n)),
       rest |-> SubSeq(stdin, n + 1, Len(stdin))]

\* util::read_message, lines 32-39: the body of content_length bytes
ReadBody(stdin, content_length) ==
  IF content_length > 0 THEN
    IF Len(stdin) < content_length
      THEN [result |-> Err("failed to fill whole buffer"), rest |-> <<>>]
    ELSE
      LET body_str == from_utf8(SubSeq(stdin, 1, content_length))
          rest == SubSeq(stdin, content_length + 1, Len(stdin))
      IN  IF body_str.t = "err" THEN [result |-> body_str, rest |-> rest]
          ELSE [result |-> Ok(Some(body_str.v)), rest |-> rest]
  ELSE [result |-> Ok(None), rest |-> stdin]

\* util::read_message, lines 12-30: the header lines up to the blank one
RECURSIVE ReadHeaders(_, _)
ReadHeaders(stdin, content_length) ==
  IF stdin = <<>> THEN [result |-> Ok(None), rest |-> <<>>]
  ELSE
    LET l == read_line(stdin)
    IN  IF l.line.t = "err" THEN [result |-> l.line, rest |-> l.rest]
        ELSE IF trim(l.line.v) = <<>> THEN ReadBody(l.rest, content_length)
        ELSE
          LET parts == splitn(trim(l.line.v))
              len == IF Len(parts) = 2 THEN parse_usize(trim(parts[2]))
                     ELSE Err("no value")
          IN  ReadHeaders(l.rest,
                IF /\ Len(parts) = 2
                   /\ eq_ignore_ascii_case(trim(parts[1]), ContentLength)
                   /\ len.t = "ok"
                  THEN len.v ELSE content_length)

\* util::read_message on the bytes of a stream: what it returns and the
\* bytes it leaves in the stream
read_message_bytes(stdin) == ReadHeaders(stdin, 0)

\* variant: the length written is the number of chars of the message
write_message_chars(message) ==
  ContentLength \o <<":", " ">> \o to_string(Len(message))
    \o <<"CR", "LF", "CR", "LF">> \o as_bytes(message)

\* util::write_message: the bytes it writes for a message
write_message_bytes(message) ==
  ContentLength \o <<":", " ">> \o to_string(Len(as_bytes(message)))
    \o <<"CR", "LF", "CR", "LF">> \o as_bytes(message)

(* ------------- the framing exercised: a writer and a reader ------------- *)
\* the messages put through: every short one, and one whose length in
\* bytes has two digits and differs from its length in chars
LongMessage ==
  <<"a", "a", "a", "a", "a", "a", "a", "a", "a", "U+00E9", "LF">>

Messages == UNION {[1..n -> Chars] : n \in 1..MaxLen} \cup {LongMessage}

ServerVars == <<pc, exit, nread, frame, message_str, request, call, gwCalls,
                reply, response, wire, reads, stdout, sent, served>>

InitFrame ==
  /\ pc = "read"
  /\ exit = "running"
  /\ nread = 0
  /\ frame = None
  /\ message_str = None
  /\ request = None
  /\ call = None
  /\ gwCalls = <<>>
  /\ reply = None
  /\ response = None
  /\ wire = None
  /\ reads = <<>>
  /\ stdout = <<>>
  /\ sent = None
  /\ served = None
  /\ pipe = [written |-> <<>>, last |-> <<>>, bytes |-> <<>>, got |-> <<>>]

\* write_message is called with a message: its bytes go into the stream
WriteFrame(message) ==
  /\ Len(pipe.written) < MaxPipe
  /\ pipe' = [pipe EXCEPT !.written = Append(@, message),
                          !.last = write_message_bytes(message),
                          !.bytes = @ \o write_message_bytes(message)]
  /\ UNCHANGED ServerVars

\* read_message is called on the stream while a frame is in it
ReadFrame ==
  /\ Len(pipe.got) < Len(pipe.written)
  /\ LET r == read_message_bytes(pipe.bytes)
     IN  pipe' = [pipe EXCEPT !.got = Append(@, r.result), !.bytes = r.rest]
  /\ UNCHANGED ServerVars

NextFrame ==
  \/ \E message \in Messages : WriteFrame(message)
  \/ ReadFrame

SpecFrame == InitFrame /\ [][NextFrame]_vars

\* the loop has finished an iteration that decoded a request
Served == pc = "read" /\ request # None

(* ------------------- vocabulary of the properties ----------------------- *)
\* the body of the frame of this iteration, as the client wrote it
Body == message_str.v

\* the request of this iteration had an id after decoding
WithId == request.v.id.t = "some"

\* positions in stdout of the frames written while frame k was served
Answers(k) == {i \in 1..Len(stdout) : stdout[i].frame = k}

\* the frame written in this iteration is an error response with this code
WroteError(code) ==
  /\ wire # None
  /\ HasMember(wire.v, "error")
  /\ wire.v.v["error"].v["code"] = JNum(code)

\* the pieces of the message of the error response written
WroteMessage == wire.v.v["error"].v["message"].v

\* the request of this iteration is a tools/call whose params carry a name
\* that is a string and an inputs member
IsToolsCall ==
  /\ request.v.method = "tools/call"
  /\ request.v.params.t = "some"
  /\ HasMember(request.v.params.v, "name")
  /\ request.v.params.v.v["name"].t = "str"
  /\ HasMember(request.v.params.v, "inputs")

ToolName == request.v.params.v.v["name"].v
ToolInputs == request.v.params.v.v["inputs"]

RegisteredTools == {"run_inference", "data_analysis"}

\* the fields the schemas of tools/list mark required, in schema order
Required(tool) ==
  IF tool = "run_inference" THEN <<"model", "prompt">> ELSE <<"data", "ops">>

(* ------------------------------ C1 -------------------------------------- *)
\* C1: every decoded request with a non-null id gets exactly one response
\* frame, carrying the request's id: never two, and one as soon as the
\* iteration that read it is over.
C1_ExactlyOneResponse ==
  \A a \in 1..Len(reads) :
    reads[a].id.t = "some" =>
      /\ Cardinality(Answers(reads[a].frame)) <= 1
      /\ \A i \in Answers(reads[a].frame) : stdout[i].id = reads[a].id.v
      /\ (reads[a].frame < nread \/ pc \in {"read", "stopped"})
           => Cardinality(Answers(reads[a].frame)) = 1

C1_Witness ==
  /\ pc = "read"
  /\ Len(reads) = 2
  /\ reads[1].id = Some(JNum(1))
  /\ reads[2].id = Some(JStr("a"))
  /\ Len(stdout) = 2
  /\ HasMember(wire.v, "error")

(* ------------------------------ C2 -------------------------------------- *)
\* C2: every frame written, by dispatch or by the parse-error path, has
\* exactly one of the members result and error.
C2_ResultXorError ==
  wire # None =>
    (HasMember(wire.v, "result") /\ ~HasMember(wire.v, "error"))
    \/ (HasMember(wire.v, "error") /\ ~HasMember(wire.v, "result"))

\* a gateway payload of null is written as a result member holding null
C2_Witness ==
  /\ wire # None
  /\ reply # None
  /\ HasMember(wire.v, "result")
  /\ wire.v.v["result"] = JNull

(* ------------------------------ C3 -------------------------------------- *)
\* the request of this iteration is one whose handler ends in a gateway call
ReachesGateway ==
  \/ /\ IsToolsCall /\ ToolName = "run_inference"
     /\ Member(ToolInputs, "model").t = "str"
     /\ Member(ToolInputs, "prompt").t = "str"
  \/ /\ IsToolsCall /\ ToolName = "data_analysis"
     /\ HasMember(ToolInputs, "data") /\ HasMember(ToolInputs, "ops")
  \/ /\ request.v.method = "resources/list"
     /\ request.v.params.t = "some"
     /\ Member(request.v.params.v, "uri") = JStr(CatalogUri)

Notification == Served /\ Body.t = "obj" /\ ~HasMember(Body, "id")

\* C3: a request without an id member is dispatched (a response is built,
\* and the gateway is called and has returned when the handler leads
\* there), and no frame is written for it.
C3_NotificationSilent ==
  Notification =>
    /\ response # None
    /\ (ReachesGateway => Len(gwCalls) = 1 /\ reply # None)
    /\ wire = None
    /\ Answers(nread) = {}

C3_Witness ==
  /\ Notification
  /\ Len(gwCalls) = 1
  /\ reply # None /\ reply.v.k = "send_error"
  /\ response.v.error # None
  /\ stdout = <<>>

(* ------------------------------ C4 -------------------------------------- *)
\* C4: the responses are written in the order of the frames they answer,
\* and a response with an id answers a request with that id that has been
\* read.
C4_ResponsesInOrder ==
  /\ \A i, j \in 1..Len(stdout) : i < j => stdout[i].frame < stdout[j].frame
  /\ \A i \in 1..Len(stdout) :
       /\ stdout[i].frame <= nread
       /\ stdout[i].id # JNull =>
            \E a \in 1..Len(reads) : /\ reads[a].frame = stdout[i].frame
                                     /\ reads[a].id = Some(stdout[i].id)

\* two requests answered with a notification read between them
C4_Witness ==
  /\ Len(stdout) = 2
  /\ Len(reads) = 3
  /\ stdout[1].frame = 1 /\ stdout[1].id = JStr("a")
  /\ stdout[2].frame = 3 /\ stdout[2].id = JNum(1)

(* ------------------------------ C5 -------------------------------------- *)
\* C5: a request whose id member is there and holds null is answered, with
\* a response whose id is null.
C5_NullIdAnswered ==
  (Served /\ HasMember(Body, "id") /\ Body.v["id"] = JNull) =>
    /\ wire # None
    /\ wire.v.v["id"] = JNull

(* ------------------------------ C6 -------------------------------------- *)
KnownMethods == {"initialize", "tools/list", "tools/call", "resources/list"}

\* C6: a request with an id for a method outside the four known ones is
\* answered with code -32601 and the gateway is not called.
C6_UnknownMethod ==
  (Served /\ WithId /\ request.v.method \notin KnownMethods) =>
    /\ WroteError(-32601)
    /\ gwCalls = <<>>

C6_Witness ==
  /\ Served /\ WithId
  /\ request.v.method = "ping"
  /\ request.v.params # None
  /\ WroteError(-32601)
  /\ "ping" \in Range(WroteMessage)

(* ------------------------------ C7 -------------------------------------- *)
\* C7: a tools/call with an id whose params hold a name and inputs, the
\* name being no registered tool, is answered with code -32601 and the
\* gateway is not called.
C7_UnknownTool ==
  (Served /\ WithId /\ IsToolsCall /\ ToolName \notin RegisteredTools) =>
    /\ WroteError(-32601)
    /\ gwCalls = <<>>

\* an unknown tool called with inputs that a registered tool would accept
C7_Witness ==
  /\ Served /\ WithId /\ IsToolsCall
  /\ ToolName = "nope"
  /\ Member(ToolInputs, "model").t = "str"
  /\ Member(ToolInputs, "prompt").t = "str"
  /\ WroteError(-32601)
  /\ "nope" \in Range(WroteMessage)

(* ------------------------------ C8 -------------------------------------- *)
\* the request of this iteration calls a registered tool with inputs that
\* lack a field its schema requires
LacksRequired ==
  /\ IsToolsCall
  /\ ToolName \in RegisteredTools
  /\ \E k \in 1..2 : ~HasMember(ToolInputs, Required(ToolName)[k])

\* the first required field, in schema order, that the tool turns down:
\* run_inference takes a field only when it is a string, data_analysis
\* whenever it is there
FirstRejected ==
  IF ToolName = "run_inference"
    THEN IF Member(ToolInputs, "model").t # "str" THEN "model" ELSE "prompt"
    ELSE IF ~HasMember(ToolInputs, "data") THEN "data" ELSE "ops"

\* C8 as stated: the call is answered with code -32602, the message names
\* the tool and a field that is missing, and the gateway is not called.
C8_MissingFieldNamed ==
  (Served /\ WithId /\ LacksRequired) =>
    /\ WroteError(-32602)
    /\ ToolName \in Range(WroteMessage)
    /\ \E k \in 1..2 : /\ ~HasMember(ToolInputs, Required(ToolName)[k])
                       /\ Required(ToolName)[k] \in Range(WroteMessage)
    /\ gwCalls = <<>>

\* C8 amended: the call is answered with code -32602, the message names the
\* tool and the first required field in schema order that is missing or,
\* for run_inference, is no string, and the gateway is not called.
C8_FirstRejectedFieldNamed ==
  (Served /\ WithId /\ LacksRequired) =>
    /\ WroteError(-32602)
    /\ ToolName \in Range(WroteMessage)
    /\ FirstRejected \in Range(WroteMessage)
    /\ gwCalls = <<>>

\* run_inference called with a prompt and no model
C8_Witness ==
  /\ Served /\ WithId /\ LacksRequired
  /\ ToolName = "run_inference"
  /\ ~HasMember(ToolInputs, "model")
  /\ Member(ToolInputs, "prompt") = JStr("p")
  /\ WroteError(-32602)
  /\ "model" \in Range(WroteMessage)

(* ------------------------------ C9 -------------------------------------- *)
\* the request of this iteration is a tools/call or a resources/list whose
\* params are absent or are an object without a member the method needs
ParamsMissing ==
  /\ Body.t = "obj"
  /\ \/ /\ request.v.method = "tools/call"
        /\ \/ ~HasMember(Body, "params")
           \/ /\ Body.v["params"].t = "obj"
              /\ \/ ~HasMember(Body.v["params"], "name")
                 \/ ~HasMember(Body.v["params"], "inputs")
     \/ /\ request.v.method = "resources/list"
        /\ \/ ~HasMember(Body, "params")
           \/ /\ Body.v["params"].t = "obj"
              /\ ~HasMember(Body.v["params"], "uri")

\* C9: a known method whose parameters are missing is answered with code
\* -32602.
C9_MissingParamsCode ==
  (Served /\ WithId /\ ParamsMissing) => WroteError(-32602)

(* ------------------------------ C10 ------------------------------------- *)
\* the gateway call of this iteration returned a failure: the backend did
\* not answer, or answered with a status that is no success
GatewayFailed ==
  /\ reply # None
  /\ \/ reply.v.k = "send_error"
     \/ ~IsSuccess(reply.v.status)

\* C10: a gateway failure is answered with code -32000 and a message that
\* carries the text of the failure.
C10_GatewayFailureCode ==
  (Served /\ WithId /\ GatewayFailed) =>
    /\ WroteError(-32000)
    /\ Range(ApiResult(reply.v).e.s) \subseteq Range(WroteMessage)

(* ------------------------------ C11 ------------------------------------- *)
\* the gateway call of this iteration returned a JSON payload
GatewayPayload ==
  /\ reply # None
  /\ reply.v.k = "response"
  /\ IsSuccess(reply.v.status)
  /\ reply.v.body # Garbage

\* the gateway capability that serves a registered tool
Capability(tool) ==
  IF tool = "run_inference" THEN "runInference" ELSE "dataAnalysis"

\* C11: a tools/call on a registered tool that reached the gateway and got
\* a JSON payload back is answered with that payload as its result and no
\* error member; the gateway was called once, with the tool's capability
\* and the required fields as the inputs hold them.
C11_PayloadForwarded ==
  (Served /\ WithId /\ IsToolsCall /\ ToolName \in RegisteredTools
     /\ GatewayPayload) =>
    /\ wire # None
    /\ HasMember(wire.v, "result")
    /\ wire.v.v["result"] = reply.v.body
    /\ ~HasMember(wire.v, "error")
    /\ Len(gwCalls) = 1
    /\ gwCalls[1].cap = Capability(ToolName)
    /\ \A k \in 1..2 :
         /\ HasMember(ToolInputs, Required(ToolName)[k])
         /\ gwCalls[1].body.v[Required(ToolName)[k]]
              = ToolInputs.v[Required(ToolName)[k]]

C11_Witness ==
  /\ Served /\ WithId /\ IsToolsCall /\ GatewayPayload
  /\ ToolName = "run_inference"
  /\ HasMember(ToolInputs, "params")
  /\ gwCalls[1].body.v["params"] = ToolInputs.v["params"]
  /\ wire.v.v["result"] = JObj([status |-> JStr("success")])

(* ------------------------------ C12 ------------------------------------- *)
\* the body of this iteration did not decode and run has dealt with that
Undecoded == message_str # None /\ request = None /\ pc # "decode"

\* a frame that is a parse-error response
IsParseError(w) ==
  /\ HasMember(w, "error")
  /\ ~HasMember(w, "result")
  /\ w.v["error"].v["code"] = JNum(-32700)

\* a frame that is a tools/list response: the names of the tools it lists
ListedNames(w) ==
  [i \in 1..Len(w.v["result"].v["tools"].v) |->
     w.v["result"].v["tools"].v[i].v["name"].v]

\* the two frames read before this one had bodies that did not decode
TwoMalformedBefore ==
  /\ nread >= 3
  /\ \A a \in 1..Len(reads) : reads[a].frame \notin {nread - 2, nread - 1}

\* C12: a body that does not decode does not make run return an error, and
\* when two such frames are followed by a tools/list request with an id,
\* the last three frames written are a -32700 response for each of the two
\* and then the tools/list response of the request, in that order.
C12_ParseErrorsThenToolsList ==
  /\ Undecoded => exit # "err"
  /\ (Served /\ WithId /\ request.v.method = "tools/list"
        /\ TwoMalformedBefore) =>
       LET n == Len(sent.v)
       IN  /\ n >= 3
           /\ Len(stdout) = n
           /\ stdout[n - 2].frame = nread - 2 /\ IsParseError(sent.v[n - 2])
           /\ stdout[n - 1].frame = nread - 1 /\ IsParseError(sent.v[n - 1])
           /\ stdout[n].frame = nread
           /\ sent.v[n] = wire.v
           /\ sent.v[n].v["id"] = request.v.id.v
           /\ ~HasMember(sent.v[n], "error")
           /\ HasMember(sent.v[n], "result")
           /\ ListedNames(sent.v[n]) = <<"run_inference", "data_analysis">>

C12_Witness ==
  /\ Served /\ WithId /\ request.v.method = "tools/list"
  /\ TwoMalformedBefore
  /\ nread = 3
  /\ Len(sent.v) = 3
  /\ sent.v[1] # sent.v[2]
  /\ IsParseError(sent.v[1]) /\ IsParseError(sent.v[2])
  /\ HasMember(sent.v[3], "result")

(* ------------------------------ C13 ------------------------------------- *)
\* C13: when a body does not decode but is an object with an id member
\* that holds a value, the -32700 response carries that id.
C13_ParseErrorKeepsId ==
  (Undecoded /\ HasMember(Body, "id") /\ Body.v["id"] # JNull) =>
    /\ WroteError(-32700)
    /\ wire.v.v["id"] = Body.v["id"]

(* ------------------------------ C14 ------------------------------------- *)
\* C14: a body that is JSON but no valid envelope is answered with code
\* -32600, a body that is no JSON with code -32700.
C14_InvalidEnvelopeCode ==
  /\ (Undecoded /\ Body # Garbage) => WroteError(-32600)
  /\ (Undecoded /\ Body = Garbage) => WroteError(-32700)

(* ------------------------------ C15 ------------------------------------- *)
\* the frame read last had no Content-Length header, or one of zero
HeaderWithoutLength == frame # None /\ frame.v.hdr \in {"none", "zero"}

\* C15: a frame without a Content-Length, or with one of zero, gets no
\* response and the loop goes on with the frames after it.
C15_FrameSkipped ==
  HeaderWithoutLength =>
    /\ Answers(nread) = {}
    /\ pc # "stopped"
    /\ exit = "running"

(* ------------------------------ C16 ------------------------------------- *)
\* C16: run ends only when the input has ended, and then it returns Ok.
C16_StopsOnlyAtEof ==
  pc = "stopped" =>
    /\ frame = Some(EndOfInput)
    /\ exit = "ok"

(* ------------------------------ C17 ------------------------------------- *)
\* C17: for a tools/list request, whatever its params and whatever was read
\* before it, the handler returns the two declared tools in declaration
\* order and the gateway is not called; when the request carries an id the
\* frame written lists the two tools in that order, each with a name that
\* is not empty and a schema.
C17_ToolsListFixed ==
  /\ (Served /\ request.v.method = "tools/list") =>
       /\ response # None
       /\ response.v.error = None
       /\ response.v.result = Some(JObj([tools |->
                                 JArr(<<RunInferenceTool, DataAnalysisTool>>)]))
       /\ gwCalls = <<>>
  /\ (Served /\ WithId /\ request.v.method = "tools/list") =>
    /\ wire # None
    /\ ~HasMember(wire.v, "error")
    /\ HasMember(wire.v, "result")
    /\ HasMember(wire.v.v["result"], "tools")
    /\ ListedNames(wire.v) = <<"run_inference", "data_analysis">>
    /\ \A i \in 1..2 :
         LET tool == wire.v.v["result"].v["tools"].v[i]
         IN  /\ tool.v["name"].t = "str"
             /\ tool.v["name"].v # ""
             /\ HasMember(tool, "inputs")
             /\ tool.v["inputs"].t = "obj"
    /\ gwCalls = <<>>

\* a tools/list with params, read as the third frame after two requests that
\* were answered
C17_Witness ==
  /\ Served /\ WithId /\ request.v.method = "tools/list"
  /\ request.v.params # None
  /\ nread = 3
  /\ Len(stdout) = 3
  /\ HasMember(wire.v, "result")

(* ------------------------------ C18 ------------------------------------- *)
\* the request of this iteration is an initialize request with an id
InitializeWithId == Served /\ WithId /\ request.v.method = "initialize"

\* C18: an initialize request with an id, with or without params, is
\* answered with a frame that carries the id of the request, no error, and
\* a result whose protocolVersion is "2024-11-05" and whose server.name is
\* "aionr2"; the result is the same value whatever the params are.
C18_InitializeFixed ==
  InitializeWithId =>
    /\ wire # None
    /\ wire.v.v["id"] = request.v.id.v
    /\ ~HasMember(wire.v, "error")
    /\ HasMember(wire.v, "result")
    /\ wire.v.v["result"].v["protocolVersion"] = JStr("2024-11-05")
    /\ wire.v.v["result"].v["server"].v["name"] = JStr("aionr2")
    /\ wire.v.v["result"] =
         JObj([protocolVersion |-> JStr("2024-11-05"),
               server |-> JObj([name |-> JStr("aionr2"),
                                version |-> JStr("CARGO_PKG_VERSION")])])
    /\ gwCalls = <<>>

\* an initialize request without params and with id 1, read after another
\* request
C18_Witness ==
  /\ InitializeWithId
  /\ request.v.params = None
  /\ request.v.id = Some(JNum(1))
  /\ Len(reads) >= 2
  /\ wire.v.v["result"].v["protocolVersion"] = JStr(MCP_VERSION)

(* ------------------------------ C19 ------------------------------------- *)
\* the uri of a resources/list request: params that are an object with a
\* string uri, or the one-element array form of it
HasUri ==
  /\ request.v.method = "resources/list"
  /\ request.v.params.t = "some"
  /\ \/ Member(request.v.params.v, "uri").t = "str"
     \/ /\ request.v.params.v.t = "arr"
        /\ Len(request.v.params.v.v) = 1
        /\ request.v.params.v.v[1].t = "str"

ResourceUri ==
  IF request.v.params.v.t = "arr" THEN request.v.params.v.v[1].v
  ELSE request.v.params.v.v["uri"].v

\* C19: a resources/list request for the catalog uri calls the gateway
\* once, with the listModels capability, and a JSON payload that comes back
\* is the result; for any other uri the result is the empty list, there is
\* no error and the gateway is not called. A request with an id gets that
\* response written.
C19_ResourcesList ==
  (Served /\ HasUri) =>
    IF ResourceUri = "aion-r://models/catalog"
      THEN /\ Len(gwCalls) = 1
           /\ gwCalls[1].cap = "listModels"
           /\ reply # None
           /\ GatewayPayload =>
                /\ response.v.result = Some(reply.v.body)
                /\ response.v.error = None
                /\ WithId => /\ wire # None
                             /\ HasMember(wire.v, "result")
                             /\ ~HasMember(wire.v, "error")
                             /\ wire.v.v["result"] = reply.v.body
      ELSE /\ gwCalls = <<>>
           /\ response.v.result = Some(JArr(<<>>))
           /\ response.v.error = None
           /\ WithId => /\ wire # None
                        /\ HasMember(wire.v, "result")
                        /\ ~HasMember(wire.v, "error")
                        /\ wire.v.v["result"] = JArr(<<>>)

\* both cases: the catalog answered with the models the gateway returned,
\* and another uri answered with the empty list
C19_Witness ==
  /\ Served /\ HasUri /\ WithId
  /\ ResourceUri = "aion-r://models/catalog"
  /\ GatewayPayload
  /\ wire.v.v["result"] = JArr(<<JStr("model-1")>>)

C19_WitnessOther ==
  /\ Served /\ HasUri /\ WithId
  /\ ResourceUri = "aion-r://other"
  /\ wire.v.v["result"] = JArr(<<>>)

(* ------------------------------ C20 ------------------------------------- *)
\* a response that dispatch has built is encoded and the text decoded again
RoundTrip == DecodeResponse(SerializeResponse(response.v))

\* C20: every response, one whose result is JSON null included, decodes
\* from its encoding to a response with the same jsonrpc, id, result and
\* error.
C20_RoundTrip ==
  response # None =>
    /\ RoundTrip.t = "ok"
    /\ RoundTrip.v.jsonrpc = response.v.jsonrpc
    /\ RoundTrip.v.id = response.v.id
    /\ RoundTrip.v.result = response.v.result
    /\ RoundTrip.v.error = response.v.error

(* ------------------------------ C21 ------------------------------------- *)
\* the step reads a frame
ReadsFrame == nread' # nread

\* the iteration that is ending has done all it had to do: nothing is
\* being decoded, dispatched or awaited, a body that did not decode has its
\* parse error written, a request has its response built, a gateway call
\* that was made has returned, and a request with an id has its frame
\* written
IterationDone ==
  /\ pc = "read"
  /\ call = None
  /\ (message_str # None /\ request = None) => wire # None
  /\ request # None =>
       /\ response # None
       /\ gwCalls # <<>> => reply # None
       /\ request.v.id.t = "some" => /\ wire # None
                                     /\ Answers(nread) # {}

\* gateway calls made in this iteration that have not returned
InFlight == Len(gwCalls) - (IF reply # None THEN 1 ELSE 0)

\* no call or one call is waiting, and one is exactly while dispatch awaits
AtMostOneInFlight == InFlight \in {0, 1} /\ (InFlight = 1 <=> pc = "await")

\* C21: a frame is read only when the iteration for the frame before it is
\* done (dispatch finished, gateway call returned, response written), and
\* before and after every step at most one gateway call is waiting for its
\* return.
C21_Sequential ==
  [][/\ ReadsFrame => IterationDone
     /\ AtMostOneInFlight
     /\ AtMostOneInFlight']_vars

\* the second frame has been read and its gateway call is in flight, after
\* the first was answered
C21_Witness ==
  /\ nread = 2
  /\ pc = "await"
  /\ InFlight = 1
  /\ Answers(1) # {}

(* ------------------------------ C22 ------------------------------------- *)
\* the method of a request of the trace
MethodOf(e) == Member(e.body, "method")

\* C22: two requests of one run that have the same body and for which the
\* backend did the same get the same response, whatever was read between
\* and before them: an initialize request, a request that failed, or
\* nothing at all.
C22_Stateless ==
  served # None =>
    \A i, j \in 1..Len(served.v) :
      (served.v[i].body = served.v[j].body
         /\ served.v[i].reply = served.v[j].reply)
      => served.v[i].response = served.v[j].response

\* a tools/call served first and again as the third request, with the same
\* payload from the backend, and an initialize request between the two
C22_Witness ==
  /\ served # None
  /\ Len(served.v) = 3
  /\ MethodOf(served.v[1]) = JStr("tools/call")
  /\ MethodOf(served.v[2]) = JStr("initialize")
  /\ served.v[3].body = served.v[1].body
  /\ served.v[3].reply = served.v[1].reply
  /\ served.v[1].response.error = None

\* a resources/list and a tools/list served after a request that failed
C22_WitnessAfterFailure ==
  /\ served # None
  /\ Len(served.v) = 3
  /\ MethodOf(served.v[1]) \in {JStr("resources/list"), JStr("tools/list")}
  /\ served.v[2].response.error # None
  /\ served.v[3].body = served.v[1].body
  /\ served.v[3].reply = served.v[1].reply

(* ------------------------------ C23 ------------------------------------- *)
\* the frame written last is "Content-Length: ", a decimal number that is
\* the number of bytes of the message, CR LF CR LF, and the bytes of the
\* message
FrameLayout ==
  pipe.written # <<>> =>
    LET b == as_bytes(pipe.written[Len(pipe.written)])
        k == Len(pipe.last) - Len(b)
    IN  /\ k >= 21
        /\ SubSeq(pipe.last, 1, 16) = ContentLength \o <<":", " ">>
        /\ parse_usize(SubSeq(pipe.last, 17, k - 4)) = Ok(Len(b))
        /\ SubSeq(pipe.last, k - 3, k) = <<"CR", "LF", "CR", "LF">>
        /\ SubSeq(pipe.last, k + 1, Len(pipe.last)) = b

\* C23: write_message writes the header with the length in bytes, a blank
\* line and the body; each read_message returns the message of the next
\* frame written, whole, and takes that frame and no more from the stream:
\* what is left starts with the frame after it, and nothing is left when
\* every frame has been read.
C23_FramingRoundTrip ==
  /\ FrameLayout
  /\ \A i \in 1..Len(pipe.got) : pipe.got[i] = Ok(Some(pipe.written[i]))
  /\ Len(pipe.got) = Len(pipe.written) => pipe.bytes = <<>>
  /\ Len(pipe.got) < Len(pipe.written) =>
       read_message_bytes(pipe.bytes).result
         = Ok(Some(pipe.written[Len(pipe.got) + 1]))

\* two frames written and read: a message with a char of four bytes and a
\* line feed, and the long message after it
C23_Witness ==
  /\ pipe.written = <<(<<"U+1F600", "LF">>), LongMessage>>
  /\ pipe.got = <<Ok(Some(<<"U+1F600", "LF">>)), Ok(Some(LongMessage))>>
  /\ pipe.bytes = <<>>

(* ------------------------------ C24 ------------------------------------- *)
\* the request of this iteration is a tools/call with an id on this tool
CallOf(tool) == Served /\ WithId /\ IsToolsCall /\ ToolName = tool

\* the response written is the -32602 error of this tool for this field,
\* word for word, and the gateway was not called
Rejected(tool, details) ==
  /\ WroteError(-32602)
  /\ WroteMessage =
       <<"Invalid parameters for method '", tool, "': ">> \o details
  /\ gwCalls = <<>>

\* the gateway was called once, for this capability
Forwarded(cap) == Len(gwCalls) = 1 /\ gwCalls[1].cap = cap

\* C24: run_inference looks at model, then at prompt, and takes each only
\* when it is a string: a model that is missing or no string is answered
\* with the same -32602 message, which names model whatever prompt is; a
\* prompt that is missing or no string is named when model is a string.
\* data_analysis looks at data, then at ops, and only at whether they are
\* there: with both there, whatever they hold, the gateway gets them.
C24_FieldChecks ==
  /\ CallOf("run_inference") =>
       IF Member(ToolInputs, "model").t # "str"
         THEN Rejected("run_inference",
                       <<"Missing or invalid '", "model", "' field">>)
       ELSE IF Member(ToolInputs, "prompt").t # "str"
         THEN Rejected("run_inference",
                       <<"Missing or invalid '", "prompt", "' field">>)
       ELSE Forwarded("runInference")
  /\ CallOf("data_analysis") =>
       IF ~HasMember(ToolInputs, "data")
         THEN Rejected("data_analysis", <<"Missing '", "data", "' field">>)
       ELSE IF ~HasMember(ToolInputs, "ops")
         THEN Rejected("data_analysis", <<"Missing '", "ops", "' field">>)
       ELSE /\ Forwarded("dataAnalysis")
            /\ gwCalls[1].body.v["data"] = ToolInputs.v["data"]
            /\ gwCalls[1].body.v["ops"] = ToolInputs.v["ops"]

\* data_analysis called with data and ops that both hold null: forwarded
C24_Witness ==
  /\ CallOf("data_analysis")
  /\ Member(ToolInputs, "data") = JNull
  /\ Member(ToolInputs, "ops") = JNull
  /\ Forwarded("dataAnalysis")
  /\ gwCalls[1].body.v["data"] = JNull

\* run_inference called without model and prompt, and with a model that is
\* a number: both answered naming model
C24_WitnessBothMissing ==
  /\ CallOf("run_inference")
  /\ ~HasMember(ToolInputs, "model") /\ ~HasMember(ToolInputs, "prompt")
  /\ "model" \in Range(WroteMessage) /\ "prompt" \notin Range(WroteMessage)

C24_WitnessNotString ==
  /\ CallOf("run_inference")
  /\ Member(ToolInputs, "model") = JNum(3)
  /\ Member(ToolInputs, "prompt") = JStr("p")
  /\ "model" \in Range(WroteMessage)

(* ------------------------------ C25 ------------------------------------- *)
\* two bodies that are the same request but for what jsonrpc holds
SameButVersion(a, b) ==
  /\ a.t = "obj" /\ b.t = "obj"
  /\ DOMAIN a.v = DOMAIN b.v
  /\ \A k \in DOMAIN a.v \ {"jsonrpc"} : a.v[k] = b.v[k]

\* C25: of two requests of one run that differ in nothing but the string in
\* jsonrpc, either both reach the gateway or neither does, and when the
\* backend did the same for both they get the same response; every frame
\* written carries jsonrpc "2.0".
C25_VersionIgnored ==
  /\ served # None =>
       \A i, j \in 1..Len(served.v) :
         SameButVersion(served.v[i].body, served.v[j].body) =>
           /\ served.v[i].reply = None <=> served.v[j].reply = None
           /\ served.v[i].reply = served.v[j].reply
                => served.v[i].response = served.v[j].response
  /\ sent # None =>
       \A i \in 1..Len(sent.v) : sent.v[i].v["jsonrpc"] = JStr("2.0")

\* a tools/call sent with jsonrpc "1.0" and then with "2.0", the backend
\* returning the same payload: both answered, with the payload
C25_Witness ==
  /\ served # None /\ Len(served.v) = 2 /\ Len(sent.v) = 2
  /\ served.v[1].body.v["jsonrpc"] = JStr("1.0")
  /\ served.v[2].body.v["jsonrpc"] = JStr("2.0")
  /\ SameButVersion(served.v[1].body, served.v[2].body)
  /\ served.v[1].reply = served.v[2].reply
  /\ served.v[1].response.result = Some(JObj([status |-> JStr("success")]))
  /\ sent.v[1] = sent.v[2]
====
